---- MODULE Spec2Model ----
(***************************************************************************)
(* Model of capnp::TwoPartyVatNetwork (c++/src/capnp/rpc-twoparty.c++).    *)
(*                                                                         *)
(* Two TwoPartyVatNetwork objects, one constructed with Side::CLIENT and   *)
(* one with Side::SERVER, share one duplex stream.  wire[e] is the byte    *)
(* direction written by endpoint e and read by Peer(e).  Every variable is *)
(* a function over Sides: the value at e is the field of the object built  *)
(* with side e.                                                            *)
(***************************************************************************)
EXTENDS Naturals, Sequences, FiniteSets

\* ---------------------------------------------------------------- bounds
MaxSends    == 3   \* send() calls, both endpoints together
MaxRecvs    == 4   \* receiveIncomingMessage() calls, both endpoints together
MaxConnects == 2   \* connectToRefHost() calls, both endpoints together
MaxAccepts  == 3   \* acceptConnectionAsRefHost() calls, both endpoints together
MaxObs      == 2   \* onDisconnect() branches, both endpoints together
MaxTermSends == 2  \* send() calls in SpecTerm
MaxTermRecvs == 2  \* receiveIncomingMessage() calls in SpecTerm
MaxFacadeRecvs == 1 \* receiveIncomingMessage() calls in SpecFacade
MaxAllConnects == 1 \* handles of connectToRefHost() in SpecAll
MaxAllAccepts == 1 \* acceptConnectionAsRefHost() calls in SpecAll
MaxAllSends == 1   \* send() calls in SpecAll
MaxAllRecvs == 1   \* receiveIncomingMessage() calls in SpecAll
MaxFairSends == 3  \* send() calls in SpecSendFair
MaxReadSends == 2  \* send() calls in SpecRead
MaxReadRecvs == 2  \* receiveIncomingMessage() calls in SpecRead
NParts      == 2   \* stream writes one serialized message is made of

Sides == {"CLIENT", "SERVER"}
Peer(e) == IF e = "CLIENT" THEN "SERVER" ELSE "CLIENT"

VARIABLES
  accepted,         \* bool accepted
  acceptCalls,      \* promises returned by acceptConnectionAsRefHost(), in call order
  acceptFulfiller,  \* index in acceptCalls of the promise acceptFulfiller fulfils, 0 = null
  connIssued,       \* Own<Connection> handed out by connectToRefHost() so far
  connHandles,      \* those of them that are still alive
  accHandles,       \* live Own<Connection> handed out by acceptConnectionAsRefHost()
  lastConnect,      \* argument and result of the latest connectToRefHost() call
  introduced,       \* the latest call of introduceTo / connectToIntroduced /
                    \* acceptIntroducedConnection on this endpoint, with how it ended
  drain,            \* drainedPromise / drainedFulfiller
  disc,             \* disconnectPromise / disconnectFulfiller
  obs,              \* branches of disconnectPromise handed to observers; early: the
                    \* branch was taken while the promise was still unresolved
  inSend,           \* send() calls that hold (or, unlocked, would hold) previousWrite
  nsent,            \* number of send() calls made so far; the n-th call sends message n
  tasks,            \* the continuations chained on previousWrite, in chaining order
  tail,             \* previousWrite: index in tasks, 0 = kj::READY_NOW
  wire,             \* stream writes done by this endpoint: <<message, part>>
  started,          \* messages in the order writeMessage() was called on the stream
  closed,           \* this endpoint has closed the stream
  rdpos,            \* how much of wire[Peer(e)] this endpoint has read
  recv,             \* promises returned by receiveIncomingMessage(), in call order;
                    \* dec: what tryReadMessage() came back with for that call,
                    \* late: the call was made with disconnectPromise already resolved
  overlap           \* receiveIncomingMessage() was called while an earlier call was pending

facadeVars == <<accepted, acceptCalls, acceptFulfiller, connIssued, connHandles,
                accHandles, lastConnect, introduced, drain>>
sendVars   == <<inSend, nsent, tasks, tail, wire, started, closed>>
recvVars   == <<rdpos, recv, overlap>>
vars == <<accepted, acceptCalls, acceptFulfiller, connIssued, connHandles, accHandles,
          lastConnect, introduced, drain, disc, obs, inSend, nsent, tasks, tail, wire, started, closed, rdpos,
          recv, overlap>>

Sum(f) == f["CLIENT"] + f["SERVER"]
Total(f) == Len(f["CLIENT"]) + Len(f["SERVER"])

\* ------------------------------------------------- kj one-shot promise pair
\* kj::newPromiseAndFulfiller<void>() forked by eventLoop.fork().
NewSignal == [state |-> "waiting", fired |-> 0, calls |-> 0]

fulfill_Again(sig) ==
  [state |-> "fulfilled", fired |-> sig.fired + 1, calls |-> sig.calls + 1]

\* PromiseFulfiller::fulfill(): only the first call matters, later calls are ignored.
fulfill(sig) ==
  IF sig.state = "waiting"
    THEN [state |-> "fulfilled", fired |-> sig.fired + 1, calls |-> sig.calls + 1]
    ELSE [sig EXCEPT !.calls = @ + 1]

\* PromiseFulfiller::reject(): the same, with an exception as the outcome.
reject(sig) ==
  IF sig.state = "waiting"
    THEN [state |-> "rejected", fired |-> sig.fired + 1, calls |-> sig.calls + 1]
    ELSE [sig EXCEPT !.calls = @ + 1]

\* ~PromiseFulfiller: a fulfiller destroyed before it was used rejects its promise.
DestroyFulfiller(calls, k) ==
  IF k # 0 /\ calls[k] = "pending" THEN [calls EXCEPT ![k] = "rejected"] ELSE calls

\* No three-party stub has been called on the endpoint yet.
NoIntroduction == [op |-> "NONE", arg |-> "NONE", outcome |-> "NONE", handle |-> FALSE]

Init ==
  /\ accepted = [e \in Sides |-> FALSE]
  /\ acceptCalls = [e \in Sides |-> <<>>]
  /\ acceptFulfiller = [e \in Sides |-> 0]
  /\ connIssued = [e \in Sides |-> 0]
  /\ connHandles = [e \in Sides |-> 0]
  /\ accHandles = [e \in Sides |-> 0]
  /\ lastConnect = [e \in Sides |-> [ref |-> "NONE", res |-> "NONE"]]
  /\ introduced = [e \in Sides |-> NoIntroduction]
  /\ drain = [e \in Sides |-> NewSignal]
  /\ disc = [e \in Sides |-> NewSignal]
  /\ obs = [e \in Sides |-> {}]
  /\ inSend = [e \in Sides |-> {}]
  /\ nsent = [e \in Sides |-> 0]
  /\ tasks = [e \in Sides |-> <<>>]
  /\ tail = [e \in Sides |-> 0]
  /\ wire = [e \in Sides |-> <<>>]
  /\ started = [e \in Sides |-> <<>>]
  /\ closed = [e \in Sides |-> FALSE]
  /\ rdpos = [e \in Sides |-> 0]
  /\ recv = [e \in Sides |-> <<>>]
  /\ overlap = [e \in Sides |-> FALSE]

\* ---------------------------------------------------------------- facade
connectToRefHost_Swapped(ref, side) == IF ref = side THEN "handle" ELSE "none"

connectToRefHost(ref, side) == IF ref = side THEN "none" ELSE "handle"

Connect(e, ref) ==
  /\ Sum(connIssued) < MaxConnects
  /\ LET res == connectToRefHost(ref, e) IN
       /\ lastConnect' = [lastConnect EXCEPT ![e] = [ref |-> ref, res |-> res]]
       /\ connIssued' = [connIssued EXCEPT ![e] = IF res = "handle" THEN @ + 1 ELSE @]
       /\ connHandles' = [connHandles EXCEPT ![e] = IF res = "handle" THEN @ + 1 ELSE @]
  /\ UNCHANGED <<accepted, acceptCalls, acceptFulfiller, accHandles, introduced, drain,
                 disc, obs>>
  /\ UNCHANGED <<sendVars, recvVars>>

\* The first accept on the server side; every other call parks a promise whose
\* fulfiller is stored in acceptFulfiller, replacing (and destroying) the one there.
Accept(e) ==
  /\ Total(acceptCalls) < MaxAccepts
  /\ IF e = "SERVER" /\ ~accepted[e]
       THEN /\ accepted' = [accepted EXCEPT ![e] = TRUE]
            /\ acceptCalls' = [acceptCalls EXCEPT ![e] = Append(@, "resolved")]
            /\ accHandles' = [accHandles EXCEPT ![e] = @ + 1]
            /\ UNCHANGED acceptFulfiller
       ELSE /\ acceptCalls' = [acceptCalls EXCEPT ![e] =
                 Append(DestroyFulfiller(@, acceptFulfiller[e]), "pending")]
            /\ acceptFulfiller' = [acceptFulfiller EXCEPT ![e] = Len(acceptCalls[e]) + 1]
            /\ UNCHANGED <<accepted, accHandles>>
  /\ UNCHANGED <<connIssued, connHandles, lastConnect, introduced, drain, disc, obs>>
  /\ UNCHANGED <<sendVars, recvVars>>

\* FulfillerDisposer::disposeImpl: the logical reference count of the handles that
\* carry this disposer drops by one; the drain signal fires when none is left.
disposeImpl(sig, live) == IF live - 1 = 0 THEN fulfill(sig) ELSE sig

ConnHandleDisposer_Disconnect == "disconnectFulfiller"

\* kj::Own<Connection>(this, drainedFulfiller): the disposer the handle returned by
\* connectToRefHost() carries.
ConnHandleDisposer == "drainedFulfiller"

\* A handle returned by connectToRefHost() is dropped: its disposer is told.
ReleaseConnHandle(e) ==
  /\ connHandles[e] > 0
  /\ connHandles' = [connHandles EXCEPT ![e] = @ - 1]
  /\ drain' = [drain EXCEPT ![e] = IF ConnHandleDisposer = "drainedFulfiller"
                                     THEN disposeImpl(@, connHandles[e]) ELSE @]
  /\ disc' = [disc EXCEPT ![e] = IF ConnHandleDisposer = "disconnectFulfiller"
                                   THEN disposeImpl(@, connHandles[e]) ELSE @]
  /\ UNCHANGED <<accepted, acceptCalls, acceptFulfiller, connIssued, accHandles,
                 lastConnect, introduced, obs>>
  /\ UNCHANGED <<sendVars, recvVars>>

\* The handle returned by acceptConnectionAsRefHost() is dropped: its disposer is
\* DestructorOnlyDisposer, which touches no field of the network.
ReleaseAcceptHandle(e) ==
  /\ accHandles[e] > 0
  /\ accHandles' = [accHandles EXCEPT ![e] = @ - 1]
  /\ UNCHANGED <<accepted, acceptCalls, acceptFulfiller, connIssued, connHandles,
                 lastConnect, introduced, drain, disc, obs>>
  /\ UNCHANGED <<sendVars, recvVars>>

\* KJ_FAIL_REQUIRE(...): raises a fatal exception; the statement after it is never
\* reached, so the function neither returns nor builds a result.
KJ_FAIL_REQUIRE == [outcome |-> "fatal", handle |-> FALSE]

IntroOpNames == {"introduceTo", "connectToIntroduced", "acceptIntroducedConnection"}

introduceTo_Returns(recipient) == [outcome |-> "returned", handle |-> FALSE]

introduceTo(recipient) == KJ_FAIL_REQUIRE

connectToIntroduced(capId) == KJ_FAIL_REQUIRE

acceptIntroducedConnection(recipientId) == KJ_FAIL_REQUIRE

\* One call of a three-party stub on endpoint e with argument arg.
Introduce(e, op, arg) ==
  /\ LET r == CASE op = "introduceTo" -> introduceTo(arg)
                [] op = "connectToIntroduced" -> connectToIntroduced(arg)
                [] op = "acceptIntroducedConnection" -> acceptIntroducedConnection(arg)
     IN introduced' = [introduced EXCEPT ![e] =
          [op |-> op, arg |-> arg, outcome |-> r.outcome, handle |-> r.handle]]
  /\ UNCHANGED <<accepted, acceptCalls, acceptFulfiller, connIssued, connHandles,
                 accHandles, lastConnect, drain, disc, obs>>
  /\ UNCHANGED <<sendVars, recvVars>>

\* ------------------------------------------------------------ outgoing side
NewTask_NoAddRef(m, p) ==
  [msg |-> m, pred |-> p, st |-> "queued", written |-> 0, failed |-> FALSE,
   afterFail |-> FALSE, callerRef |-> TRUE, queueRef |-> FALSE]

\* The continuation send() chains on previousWrite, with the reference to the
\* message it captures (kj::addRef(*this)); the caller still holds its own.
NewTask(m, p) ==
  [msg |-> m, pred |-> p, st |-> "queued", written |-> 0, failed |-> FALSE,
   afterFail |-> FALSE, callerRef |-> TRUE, queueRef |-> TRUE]

\* previousWrite.lockExclusive(): free when no send() is between its read of the
\* tail and its replacement of the tail.
LockFree_NoLock(e) == TRUE

LockFree(e) == inSend[e] = {}

\* eventLoop.there(kj::mv(*lock), ...): the new continuation waits for the old tail.
ChainAfter_Detached(prev) == 0

ChainAfter(prev) == prev

\* send(), first half: take the lock and read the tail.  The message is the one of
\* a fresh newOutgoingMessage(); the n-th send() call of an endpoint sends message n.
SendBegin(e) ==
  /\ Sum(nsent) < MaxSends
  /\ LockFree(e)
  /\ nsent' = [nsent EXCEPT ![e] = @ + 1]
  /\ inSend' = [inSend EXCEPT ![e] = @ \cup {[msg |-> nsent[e] + 1, prev |-> tail[e]]}]
  /\ UNCHANGED <<tasks, tail, wire, started, closed>>
  /\ UNCHANGED <<facadeVars, disc, obs, recvVars>>

\* send(), second half: store the new tail and release the lock.
SendEnd(e, c) ==
  /\ c \in inSend[e]
  /\ tasks' = [tasks EXCEPT ![e] = Append(@, NewTask(c.msg, ChainAfter(c.prev)))]
  /\ tail' = [tail EXCEPT ![e] = Len(tasks[e]) + 1]
  /\ inSend' = [inSend EXCEPT ![e] = @ \ {c}]
  /\ UNCHANGED <<nsent, wire, started, closed>>
  /\ UNCHANGED <<facadeVars, disc, obs, recvVars>>

Settled(e, p) == IF p = 0 THEN TRUE ELSE tasks[e][p].st \in {"resolved", "rejected"}
Rejected(e, p) == IF p = 0 THEN FALSE ELSE tasks[e][p].st = "rejected"
AnyFailed(e) == \E i \in 1..Len(tasks[e]) : tasks[e][i].failed

\* The continuation given to there() runs once the promise it waits for is done:
\* it calls writeMessage(network.stream, message).  A rejected promise skips the
\* continuation and rejects the new promise in turn.
RunContinuation(e, i) ==
  /\ i \in 1..Len(tasks[e])
  /\ tasks[e][i].st = "queued"
  /\ Settled(e, tasks[e][i].pred)
  /\ IF Rejected(e, tasks[e][i].pred)
       THEN /\ tasks' = [tasks EXCEPT ![e][i].st = "rejected",
                                      ![e][i].queueRef = FALSE]
            /\ UNCHANGED started
       ELSE /\ tasks' = [tasks EXCEPT ![e][i].st = "writing",
                                      ![e][i].afterFail = AnyFailed(e)]
            /\ started' = [started EXCEPT ![e] = Append(@, tasks[e][i].msg)]
  /\ UNCHANGED <<inSend, nsent, tail, wire, closed>>
  /\ UNCHANGED <<facadeVars, disc, obs, recvVars>>

\* writeMessage() puts the next part of the serialized message on the stream.
WriteChunk(e, i) ==
  /\ i \in 1..Len(tasks[e])
  /\ tasks[e][i].st = "writing"
  /\ tasks[e][i].written < NParts
  /\ ~closed[e]
  /\ wire' = [wire EXCEPT ![e] = Append(@, <<tasks[e][i].msg, tasks[e][i].written + 1>>)]
  /\ tasks' = [tasks EXCEPT ![e][i].written = @ + 1]
  /\ UNCHANGED <<inSend, nsent, tail, started, closed>>
  /\ UNCHANGED <<facadeVars, disc, obs, recvVars>>

\* The success continuation of the write: drops `self`, returns kj::READY_NOW.
OnWriteDone(t) == [t EXCEPT !.st = "resolved", !.queueRef = FALSE]

WriteOk(e, i) ==
  /\ i \in 1..Len(tasks[e])
  /\ tasks[e][i].st = "writing"
  /\ tasks[e][i].written = NParts
  /\ tasks' = [tasks EXCEPT ![e][i] = OnWriteDone(@)]
  /\ UNCHANGED <<inSend, nsent, tail, wire, started, closed>>
  /\ UNCHANGED <<facadeVars, disc, obs, recvVars>>

WriteErrorSignal_Reject(sig) == reject(sig)

\* The error continuation of the write: disconnectFulfiller...->fulfill().
WriteErrorSignal(sig) == fulfill(sig)

OnWriteError_Rethrow(t) ==
  [t EXCEPT !.st = "rejected", !.failed = TRUE, !.queueRef = FALSE]

\* ... and then returns kj::READY_NOW; the success continuation, which held
\* `self`, is destroyed without having run.
OnWriteError(t) == [t EXCEPT !.st = "resolved", !.failed = TRUE, !.queueRef = FALSE]

\* The stream reports an error for the write in progress, after any number of parts.
WriteFail(e, i) ==
  /\ i \in 1..Len(tasks[e])
  /\ tasks[e][i].st = "writing"
  /\ disc' = [disc EXCEPT ![e] = WriteErrorSignal(@)]
  /\ tasks' = [tasks EXCEPT ![e][i] = OnWriteError(@)]
  /\ UNCHANGED <<inSend, nsent, tail, wire, started, closed>>
  /\ UNCHANGED <<facadeVars, obs, recvVars>>

\* The caller of send() drops the Own<OutgoingRpcMessage> it got from
\* newOutgoingMessage().
CallerRelease(e, i) ==
  /\ i \in 1..Len(tasks[e])
  /\ tasks[e][i].callerRef
  /\ tasks' = [tasks EXCEPT ![e][i].callerRef = FALSE]
  /\ UNCHANGED <<inSend, nsent, tail, wire, started, closed>>
  /\ UNCHANGED <<facadeVars, disc, obs, recvVars>>

\* The owner of the stream closes it.
Close(e) ==
  /\ ~closed[e]
  /\ closed' = [closed EXCEPT ![e] = TRUE]
  /\ UNCHANGED <<inSend, nsent, tasks, tail, wire, started>>
  /\ UNCHANGED <<facadeVars, disc, obs, recvVars>>

\* ------------------------------------------------------------ incoming side
WellFormed(w, pos, k) == \A j \in 1..k : w[pos + j] = <<w[pos + 1][1], j>>

\* tryReadMessage(stream, receiveOptions) on what the peer has written so far:
\* a whole frame is a message, nothing left on a closed stream is end-of-stream,
\* a broken or cut-off frame is a framing error, anything else is not ready yet.
Decode(w, pos, isClosed) ==
  LET n == Len(w) - pos IN
  IF n = 0
    THEN [kind |-> IF isClosed THEN "eof" ELSE "wait", val |-> 0, pos |-> pos]
  ELSE IF n >= NParts /\ WellFormed(w, pos, NParts)
    THEN [kind |-> "msg", val |-> w[pos + 1][1], pos |-> pos + NParts]
  ELSE IF n < NParts /\ WellFormed(w, pos, n) /\ ~isClosed
    THEN [kind |-> "wait", val |-> 0, pos |-> pos]
  ELSE [kind |-> "error", val |-> 0, pos |-> Len(w)]

OnDecoded_EofAsMessage(d) == [st |-> "msg", val |-> d.val, term |-> d.kind # "msg"]

OnDecoded_AlwaysTerminate(d) ==
  IF d.kind = "msg"
    THEN [st |-> "msg", val |-> d.val, term |-> TRUE]
    ELSE [st |-> "none", val |-> 0, term |-> TRUE]

OnDecoded_DropMessage(d) == [st |-> "none", val |-> 0, term |-> TRUE]

OnDecoded_SilentEof(d) ==
  IF d.kind = "msg"
    THEN [st |-> "msg", val |-> d.val, term |-> FALSE]
    ELSE [st |-> "none", val |-> 0, term |-> FALSE]

\* The success continuation of tryReadMessage(): KJ_IF_MAYBE(m, message) wraps the
\* message, else fulfils disconnectFulfiller and returns nullptr.
OnDecoded(d) ==
  IF d.kind = "msg"
    THEN [st |-> "msg", val |-> d.val, term |-> FALSE]
    ELSE [st |-> "none", val |-> 0, term |-> TRUE]

OnDecodeError_Swallow(d) == [st |-> "none", val |-> 0, term |-> TRUE]

\* The error continuation: fulfils disconnectFulfiller, then rethrows.
OnDecodeError(d) == [st |-> "error", val |-> 0, term |-> TRUE]

NewReceive_Inline == [st |-> "reading", val |-> 0, dec |-> "", late |-> FALSE]

\* eventLoop.evalLater(...): the promise handed back is pending and its lambda has
\* not run.
NewReceive == [st |-> "scheduled", val |-> 0, dec |-> "", late |-> FALSE]

Pending(r) == r.st \in {"scheduled", "reading"}

\* receiveIncomingMessage(): eventLoop.evalLater() only queues the lambda.
ReceiveCall(e) ==
  /\ Total(recv) < MaxRecvs
  /\ recv' = [recv EXCEPT ![e] =
       Append(@, [NewReceive EXCEPT !.late = disc[e].state = "fulfilled"])]
  /\ overlap' = [overlap EXCEPT ![e] = (@ \/ \E k \in 1..Len(recv[e]) : Pending(recv[e][k]))]
  /\ UNCHANGED rdpos
  /\ UNCHANGED <<facadeVars, disc, obs, sendVars>>

\* A later turn of the event loop runs the lambda, which calls tryReadMessage().
DecodeStart(e, k) ==
  /\ k \in 1..Len(recv[e])
  /\ recv[e][k].st = "scheduled"
  /\ recv' = [recv EXCEPT ![e][k].st = "reading"]
  /\ UNCHANGED <<rdpos, overlap>>
  /\ UNCHANGED <<facadeVars, disc, obs, sendVars>>

\* tryReadMessage() finishes and the continuation attached to it runs.
DecodeDone(e, k) ==
  /\ k \in 1..Len(recv[e])
  /\ recv[e][k].st = "reading"
  /\ LET d == Decode(wire[Peer(e)], rdpos[e], closed[Peer(e)])
         out == IF d.kind = "error" THEN OnDecodeError(d) ELSE OnDecoded(d)
     IN /\ d.kind # "wait"
        /\ recv' = [recv EXCEPT ![e][k] = [st |-> out.st, val |-> out.val, dec |-> d.kind,
                                               late |-> recv[e][k].late]]
        /\ rdpos' = [rdpos EXCEPT ![e] = d.pos]
        /\ disc' = [disc EXCEPT ![e] = IF out.term THEN fulfill(@) ELSE @]
  /\ UNCHANGED overlap
  /\ UNCHANGED <<facadeVars, obs, sendVars>>

\* ------------------------------------------------------------ observers
\* onDisconnect(): disconnectPromise.addBranch().  Observers that took their branch
\* on the same side of the fulfilment and are in the same state are not told apart.
Observe(e) ==
  /\ Cardinality(obs["CLIENT"]) + Cardinality(obs["SERVER"]) < MaxObs
  /\ obs' = [obs EXCEPT ![e] = @ \cup {[st |-> "waiting", early |-> disc[e].state = "waiting"]}]
  /\ UNCHANGED <<facadeVars, disc, sendVars, recvVars>>

\* The event loop resumes a branch of the forked promise once the hub is resolved.
ObserverWake(e, o) ==
  /\ o \in obs[e]
  /\ o.st = "waiting"
  /\ disc[e].state # "waiting"
  /\ obs' = [obs EXCEPT ![e] = (@ \ {o}) \cup {[o EXCEPT !.st = disc[e].state]}]
  /\ UNCHANGED <<facadeVars, disc, sendVars, recvVars>>

\* ------------------------------------------------------------ specifications
\* The operations of the facade, with at most nc handles of connectToRefHost()
\* and at most na acceptConnectionAsRefHost() calls in all.
FacadeOpsUpTo(e, nc, na) ==
  \/ \E ref \in Sides : Sum(connIssued) < nc /\ Connect(e, ref)
  \/ Total(acceptCalls) < na /\ Accept(e)
  \/ ReleaseConnHandle(e)
  \/ ReleaseAcceptHandle(e)

FacadeOps(e) == FacadeOpsUpTo(e, MaxConnects, MaxAccepts)

\* The operations of the outgoing side, with at most n send() calls in all.
SendOpsUpTo(e, n) ==
  \/ Sum(nsent) < n /\ SendBegin(e)
  \/ \E c \in inSend[e] : SendEnd(e, c)
  \/ \E i \in 1..Len(tasks[e]) : RunContinuation(e, i)
  \/ \E i \in 1..Len(tasks[e]) : WriteChunk(e, i)
  \/ \E i \in 1..Len(tasks[e]) : WriteOk(e, i)
  \/ \E i \in 1..Len(tasks[e]) : WriteFail(e, i)
  \/ Close(e)

SendOps(e) == SendOpsUpTo(e, MaxSends)

\* The operations of the incoming side, with at most n receive calls in all.
RecvOpsUpTo(e, n) ==
  \/ Total(recv) < n /\ ReceiveCall(e)
  \/ \E k \in 1..Len(recv[e]) : DecodeStart(e, k)
  \/ \E k \in 1..Len(recv[e]) : DecodeDone(e, k)

RecvOps(e) == RecvOpsUpTo(e, MaxRecvs)

\* The incoming side driven by a caller's loop: the next receive is called only
\* when the one before it has resolved.
RecvLoopUpTo(e, n) ==
  \/ Total(recv) < n /\ (\A k \in 1..Len(recv[e]) : ~Pending(recv[e][k])) /\ ReceiveCall(e)
  \/ \E k \in 1..Len(recv[e]) : DecodeStart(e, k)
  \/ \E k \in 1..Len(recv[e]) : DecodeDone(e, k)

RecvLoop(e) == RecvLoopUpTo(e, MaxRecvs)

ObsOps(e) ==
  \/ Observe(e)
  \/ \E o \in obs[e] : ObserverWake(e, o)

Next == \E e \in Sides : FacadeOps(e) \/ SendOps(e) \/ RecvOps(e) \/ ObsOps(e)

\* The whole program: both endpoints, every operation.
Spec == Init /\ [][Next]_vars

\* The facade, on a stream the peer may close: connect, accept, the release of
\* their handles, and a receive that can meet the end of the stream.
FacadeNext == \E e \in Sides : FacadeOps(e) \/ Close(e) \/ RecvOpsUpTo(e, MaxFacadeRecvs)

SpecFacade == Init /\ [][FacadeNext]_vars

\* The three-party stubs, called in every state of the facade.
IntroOps(e) == \E op \in IntroOpNames, arg \in Sides : Introduce(e, op, arg)

IntroNext == \E e \in Sides : FacadeOps(e) \/ IntroOps(e)

SpecIntro == Init /\ [][IntroNext]_vars

\* Facade and transport together: both endpoints connect, accept and release,
\* the client sends, the server receives in a loop.
AllNext ==
  \/ \E e \in Sides : FacadeOpsUpTo(e, MaxAllConnects, MaxAllAccepts)
  \/ SendOpsUpTo("CLIENT", MaxAllSends)
  \/ RecvLoopUpTo("SERVER", MaxAllRecvs)

SpecAll == Init /\ [][AllNext]_vars

\* The outgoing side of one endpoint, with callers that drop their messages.
LifeNext == SendOps("CLIENT") \/ \E i \in 1..Len(tasks["CLIENT"]) : CallerRelease("CLIENT", i)

SpecLife == Init /\ [][LifeNext]_vars

\* One direction of the link with a caller that does not wait for a receive to
\* resolve before it calls the next.
ReadNext == SendOpsUpTo("CLIENT", MaxReadSends) \/ RecvOpsUpTo("SERVER", MaxReadRecvs)

SpecRead == Init /\ [][ReadNext]_vars

\* The outgoing side of the two endpoints.
SpecSend == Init /\ [][\E e \in Sides : SendOps(e)]_vars

\* The outgoing side of one endpoint under a fair event loop, which runs every
\* continuation that is ready, and a stream on which a write that was started
\* goes on until it has succeeded or failed.
SendNext == SendOpsUpTo("CLIENT", MaxFairSends)

WriteStep(e, i) == WriteChunk(e, i) \/ WriteOk(e, i) \/ WriteFail(e, i)

SendFairness ==
  \A i \in 1..MaxFairSends :
    WF_vars(RunContinuation("CLIENT", i)) /\ WF_vars(WriteStep("CLIENT", i))

SpecSendFair == Init /\ [][SendNext]_vars /\ SendFairness

\* One direction of the link: the client sends, the server receives.
SpecLink == Init /\ [][SendOps("CLIENT") \/ RecvLoop("SERVER")]_vars

\* Every path to the termination signal of one endpoint: the client sends and
\* receives and is observed, the server sends and closes.
TermNext ==
  \/ SendOpsUpTo("CLIENT", MaxTermSends)
  \/ RecvLoopUpTo("CLIENT", MaxTermRecvs)
  \/ ObsOps("CLIENT")
  \/ SendOpsUpTo("SERVER", MaxTermSends)

SpecTerm == Init /\ [][TermNext]_vars

\* ------------------------------------------------------------ properties
Writing(e) == {i \in 1..Len(tasks[e]) : tasks[e][i].st = "writing"}

\* C1: the k-th write started on the stream is the message of the k-th send() call,
\* and what is on the stream is whole-or-cut-short messages in that same order: the
\* parts of one message are contiguous and in order, and a part of a later message
\* never comes before a part of an earlier one.
C1_WritesInSendOrder ==
  \A e \in Sides :
    /\ \A k \in 1..Len(started[e]) : started[e][k] = k
    /\ \A j \in 1..Len(wire[e]) :
         LET c == wire[e][j] IN
           IF j = 1
             THEN c[2] = 1
             ELSE LET b == wire[e][j - 1] IN
                    \/ c[1] = b[1] /\ c[2] = b[2] + 1
                    \/ c[1] > b[1] /\ c[2] = 1

\* Two messages have been started in turn and bytes of the second are on the stream.
C1_Witness ==
  \E e \in Sides :
    /\ Len(started[e]) >= 2
    /\ \E j \in 1..Len(wire[e]) : wire[e][j][1] = 2

\* C2: at most one write is in progress on the stream of an endpoint, at most one
\* send() is between reading and replacing the tail, every continuation is chained
\* behind the one chained just before it, and a write that has begun has a
\* predecessor that is finished.
C2_OneWriteAtATime ==
  \A e \in Sides :
    /\ Cardinality(Writing(e)) <= 1
    /\ Cardinality(inSend[e]) <= 1
    /\ \A i \in 1..Len(tasks[e]) :
         /\ tasks[e][i].pred = i - 1
         /\ tasks[e][i].st # "queued" => Settled(e, tasks[e][i].pred)

\* A write is in progress, a second message waits behind it and a third send() is
\* inside its critical section.
C2_Witness ==
  \E e \in Sides :
    /\ inSend[e] # {}
    /\ \E i, j \in 1..Len(tasks[e]) :
         tasks[e][i].st = "writing" /\ tasks[e][j].st = "queued"

\* C8 (as claimed): a write failure fulfils the termination signal and no write of
\* a message queued behind the failed one is started afterwards.
C8_NoWriteAfterFailure ==
  \A e \in Sides : \A i \in 1..Len(tasks[e]) :
    /\ tasks[e][i].failed => disc[e].state = "fulfilled"
    /\ ~tasks[e][i].afterFail

\* C9: no continuation of the chain, and so never its tail, ends rejected; a failed
\* write leaves its continuation resolved and the termination signal fulfilled.
C9_WriteFailureAbsorbed ==
  \A e \in Sides : \A i \in 1..Len(tasks[e]) :
    /\ tasks[e][i].st # "rejected"
    /\ tasks[e][i].failed =>
         /\ tasks[e][i].st = "resolved"
         /\ disc[e].state = "fulfilled"
         /\ disc[e].fired = 1

\* The write at the tail of the chain failed after an earlier write had failed too:
\* the second fulfil found the signal already fulfilled.
C9_Witness ==
  \E e \in Sides :
    /\ tail[e] # 0
    /\ inSend[e] = {}
    /\ IF tail[e] = 0 THEN FALSE ELSE tasks[e][tail[e]].failed
    /\ disc[e].calls >= 2

Results(e, kind) == {k \in 1..Len(recv[e]) : recv[e][k].st = kind}

\* C3: the termination signal of an endpoint makes the step from unresolved to
\* fulfilled at most once, whatever number of write failures, decode failures and
\* ends of stream call fulfil; its outcome is never an error; and every observer
\* that has been resumed, whether it took its branch before or after the fulfilment,
\* has seen that one outcome.
C3_TerminatedOnce ==
  \A e \in Sides :
    /\ disc[e].fired <= 1
    /\ disc[e].state = (IF disc[e].fired = 0 THEN "waiting" ELSE "fulfilled")
    /\ disc[e].calls = Cardinality({i \in 1..Len(tasks[e]) : tasks[e][i].failed})
                         + Cardinality(Results(e, "none"))
                         + Cardinality(Results(e, "error"))
    /\ \A o \in obs[e] :
         o.st # "waiting" => o.st = "fulfilled" /\ disc[e].state = "fulfilled"

\* A write failure, a decode failure and an end of stream have all reached their
\* fulfil on one endpoint, and an observer from before and one from after the
\* fulfilment have both been resumed.
C3_Witness ==
  \E e \in Sides :
    /\ \E i \in 1..Len(tasks[e]) : tasks[e][i].failed
    /\ Results(e, "none") # {}
    /\ Results(e, "error") # {}
    /\ disc[e].calls = 3
    /\ [st |-> "fulfilled", early |-> TRUE] \in obs[e]
    /\ [st |-> "fulfilled", early |-> FALSE] \in obs[e]

Held(e) == connHandles[e] + accHandles[e]

\* C4 (as claimed): the drain signal of an endpoint fires only in a step that leaves
\* no handle of connect() or accept() held, it does fire in every step that releases
\* the last handle held, and it never fires twice.
C4_DrainIffAllReleased ==
  [][\A e \in Sides :
       /\ (drain[e].state = "waiting" /\ drain'[e].state # "waiting") => Held(e)' = 0
       /\ (Held(e) = 1 /\ Held(e)' = 0) => drain'[e].state = "fulfilled"
       /\ drain'[e].fired <= 1]_vars

\* C5: the latest connect() of each endpoint returned none exactly when the side it
\* was asked for is the endpoint's own side, and a handle otherwise, whatever the
\* state of accept(), of the drain signal and of the termination signal.
C5_ConnectResult ==
  \A e \in Sides :
    lastConnect[e].ref # "NONE" =>
      /\ lastConnect[e].res \in {"none", "handle"}
      /\ lastConnect[e].res = "none" <=> lastConnect[e].ref = e
      /\ lastConnect[e].res = "handle" => connIssued[e] > 0

\* The server connects to the client side and gets a handle after its accept(), its
\* drain and its termination, and a connect to its own side has returned none on
\* the client.
C5_Witness ==
  /\ lastConnect["SERVER"] = [ref |-> "CLIENT", res |-> "handle"]
  /\ lastConnect["CLIENT"] = [ref |-> "CLIENT", res |-> "none"]
  /\ accepted["SERVER"]
  /\ drain["SERVER"].state = "fulfilled"
  /\ disc["SERVER"].state = "fulfilled"
  /\ connHandles["SERVER"] = 1

\* C6 (as claimed): the first accept() of the server is resolved and every other
\* accept() call, on either side, stays unresolved for good: it is neither resolved
\* nor rejected, however many accept() calls follow it.
C6_LaterAcceptsNeverResolve ==
  \A e \in Sides : \A k \in 1..Len(acceptCalls[e]) :
    acceptCalls[e][k] = (IF e = "SERVER" /\ k = 1 THEN "resolved" ELSE "pending")

\* The sender's stream is sound: no write of it has failed, and if it is closed it
\* was closed with every message sent already written out.
Healthy(e) ==
  /\ ~AnyFailed(e)
  /\ closed[e] =>
       /\ inSend[e] = {}
       /\ \A i \in 1..Len(tasks[e]) : tasks[e][i].st = "resolved"

\* C7: while the client's stream is sound and the server calls receive in a loop
\* (one call at a time), the k-th receive of the server that has resolved has
\* yielded the k-th message the client sent, and a receive yields none only after
\* the client has closed and every message it sent has been yielded; no receive
\* fails.  For three messages the loop yields M1, M2, M3, none.
C7_FifoDelivery ==
  (Healthy("CLIENT") /\ ~overlap["SERVER"]) =>
    \A k \in 1..Len(recv["SERVER"]) :
      LET r == recv["SERVER"][k] IN
        /\ k < Len(recv["SERVER"]) => ~Pending(r)
        /\ r.st # "error"
        /\ r.st = "msg" => r.val = k /\ k <= nsent["CLIENT"]
        /\ r.st = "none" => closed["CLIENT"] /\ k > nsent["CLIENT"]

\* The client has sent three messages and closed; the server's loop has yielded
\* message 1, message 2, message 3 and then none.
C7_Witness ==
  /\ Healthy("CLIENT") /\ ~overlap["SERVER"]
  /\ nsent["CLIENT"] = 3
  /\ closed["CLIENT"]
  /\ Len(recv["SERVER"]) = 4
  /\ \A k \in 1..3 : recv["SERVER"][k] = [st |-> "msg", val |-> k, dec |-> "msg", late |-> FALSE]
  /\ recv["SERVER"][4].st = "none"

\* C10: a receive of the server that resolved with none has fulfilled the server's
\* termination signal, and a receive that resolved with a message has not: the
\* number of fulfil calls on the signal is the number of receives that ended in
\* none or in an error, so the signal is unresolved while every receive so far has
\* yielded a message.
C10_EofTerminates ==
  /\ Results("SERVER", "none") # {} => disc["SERVER"].state = "fulfilled"
  /\ disc["SERVER"].calls =
       Cardinality(Results("SERVER", "none")) + Cardinality(Results("SERVER", "error"))
  /\ disc["SERVER"].calls = 0 => disc["SERVER"].state = "waiting"
  /\ \A k \in Results("SERVER", "msg") : recv["SERVER"][k].val \in 1..nsent["CLIENT"]

\* A receive yielded a message and the receive after it met the end of the stream
\* and resolved with none: the one fulfil of the signal is the one of the second.
C10_Witness ==
  \E k \in 1..Len(recv["SERVER"]) :
    /\ k > 1
    /\ recv["SERVER"][k].st = "none"
    /\ recv["SERVER"][k - 1].st = "msg"
    /\ disc["SERVER"] = [state |-> "fulfilled", fired |-> 1, calls |-> 1]

\* C11: a receive of the server whose decode failed has ended in an error, not in
\* none and not in a message, and the server's termination signal is fulfilled in
\* every state in which that error can be observed; no receive ends in an error
\* unless its decode failed.
C11_DecodeErrorRaised ==
  \A k \in 1..Len(recv["SERVER"]) :
    LET r == recv["SERVER"][k] IN
      /\ r.dec = "error" => r.st = "error" /\ disc["SERVER"].state = "fulfilled"
      /\ r.st = "error" => r.dec = "error"

\* A receive of the server met a broken frame and ended in an error; it was the
\* first to fulfil the signal.
C11_Witness ==
  /\ Results("SERVER", "error") # {}
  /\ Results("SERVER", "none") = {}
  /\ disc["SERVER"] = [state |-> "fulfilled", fired |-> 1, calls |-> 1]

\* C12: fulfil is invoked at most once on the termination signal of each
\* endpoint: no write failure, decode failure or end-of-stream reaches its fulfil
\* step after the handle has been used.
C12_FulfilInvokedOnce == \A e \in Sides : disc[e].calls <= 1

\* C13: the latest call of introduceTo, connectToIntroduced or
\* acceptIntroducedConnection on each endpoint, in whatever state the facade was
\* and with whatever argument, ended fatally and produced no Connection handle.
C13_IntroductionsFatal ==
  \A e \in Sides :
    introduced[e].op # "NONE" => introduced[e].outcome = "fatal" /\ ~introduced[e].handle

\* Two different stubs have been called, one on a client that had already handed
\* out a connection and dropped it, one on a server that had accepted.
C13_Witness ==
  /\ introduced["CLIENT"].op = "introduceTo"
  /\ introduced["SERVER"].op = "acceptIntroducedConnection"
  /\ connIssued["CLIENT"] > 0 /\ drain["CLIENT"].state = "fulfilled"
  /\ accepted["SERVER"]
  /\ \A e \in Sides : introduced[e].outcome = "fatal"

\* C14: a message of the client whose write is pending or in progress is kept
\* alive by a reference the queue holds, whether or not the caller has dropped its
\* own; the queue's reference is gone once the write has finished, so a message
\* the caller has dropped too is destroyed then and not before.
RefCount(t) == (IF t.callerRef THEN 1 ELSE 0) + (IF t.queueRef THEN 1 ELSE 0)

C14_AliveUntilWritten ==
  \A i \in 1..Len(tasks["CLIENT"]) :
    LET t == tasks["CLIENT"][i] IN
      /\ t.st \in {"queued", "writing"} => t.queueRef /\ RefCount(t) >= 1
      /\ t.st \in {"resolved", "rejected"} => ~t.queueRef
      /\ t.st \in {"resolved", "rejected"} /\ ~t.callerRef => RefCount(t) = 0

\* The caller dropped both messages right after send(); the first has been written
\* and is destroyed, the second is half written and still alive.
C14_Witness ==
  /\ Len(tasks["CLIENT"]) >= 2
  /\ \A i \in 1..2 : ~tasks["CLIENT"][i].callerRef
  /\ tasks["CLIENT"][1].st = "resolved" /\ RefCount(tasks["CLIENT"][1]) = 0
  /\ tasks["CLIENT"][2].st = "writing" /\ tasks["CLIENT"][2].written = 1
  /\ RefCount(tasks["CLIENT"][2]) = 1

\* C15: a receiveIncomingMessage() called after the endpoint's termination
\* signal was fulfilled starts no read: tryReadMessage() is never called on the
\* stream for it.
C15_NoIoAfterTermination ==
  \A e \in Sides : \A k \in 1..Len(recv[e]) :
    recv[e][k].late => recv[e][k].st = "scheduled" /\ recv[e][k].dec = ""

\* C16: the step in which receiveIncomingMessage() is called on an endpoint
\* leaves the read position of the stream and the termination signal as they
\* were and returns a promise whose lambda has not run: the decode is a later step.
C16_ReceiveNotInline ==
  [][\A e \in Sides :
       Len(recv'[e]) > Len(recv[e]) =>
         /\ rdpos' = rdpos
         /\ disc' = disc
         /\ recv'[e][Len(recv'[e])].st = "scheduled"
         /\ recv'[e][Len(recv'[e])].dec = ""]_vars

\* The server has called receiveIncomingMessage() while a whole message was
\* waiting on the stream, and nothing of it has been read yet.
C16_Witness ==
  /\ Len(recv["SERVER"]) = 1
  /\ recv["SERVER"][1].st = "scheduled"
  /\ Len(wire["CLIENT"]) >= NParts
  /\ rdpos["SERVER"] = 0
  /\ disc["SERVER"].state = "waiting"

\* C17 (as stated): on every endpoint at most one decode is in progress on the
\* stream.
Decoding(e) == {k \in 1..Len(recv[e]) : recv[e][k].st = "reading"}

C17_OneDecodeAtATime == \A e \in Sides : Cardinality(Decoding(e)) <= 1

\* C17 (amended): as long as the caller has called receiveIncomingMessage() only
\* when no earlier call was pending, at most one decode is in progress, every
\* earlier call has resolved before it, and, unless a frame was broken, the
\* stream has been read by exactly one message for each call that resolved to a
\* message and by nothing for any other call.
C17_SequentialInLoop ==
  \A e \in Sides :
    ~overlap[e] =>
      /\ Cardinality(Decoding(e)) <= 1
      /\ \A k \in Decoding(e) : \A j \in 1..(k - 1) : ~Pending(recv[e][j])
      /\ Results(e, "error") = {} => rdpos[e] = NParts * Cardinality(Results(e, "msg"))

\* The server's loop has decoded one message and is decoding the second, with
\* both on the stream.
C17_Witness ==
  /\ ~overlap["SERVER"]
  /\ Len(recv["SERVER"]) = 2
  /\ recv["SERVER"][1].st = "msg"
  /\ recv["SERVER"][2].st = "reading"
  /\ rdpos["SERVER"] = NParts
  /\ Len(wire["CLIENT"]) = 2 * NParts

\* C18: under a fair event loop and a stream whose writes each end, every
\* continuation send() has chained on previousWrite eventually has
\* writeMessage() called for its message and ends with the message fully written
\* or with a stream error, whatever happened to the writes before it.
Finished(e, i) ==
  IF Len(tasks[e]) < i THEN FALSE
  ELSE /\ tasks[e][i].st = "resolved"
       /\ \E j \in 1..Len(started[e]) : started[e][j] = tasks[e][i].msg
       /\ tasks[e][i].written = NParts \/ tasks[e][i].failed

C18_EverySendFinishes ==
  \A i \in 1..MaxFairSends : (Len(tasks["CLIENT"]) >= i) ~> Finished("CLIENT", i)

\* A message was written in full after the write before it had failed.
C18_Witness ==
  \E e \in Sides : \E i \in 2..Len(tasks[e]) :
    /\ tasks[e][i - 1].failed
    /\ tasks[e][i].afterFail
    /\ Finished(e, i)
    /\ tasks[e][i].written = NParts /\ ~tasks[e][i].failed

\* C19: a step that changes the termination signal of an endpoint is a step of
\* a write or of a receive and leaves every drain signal and every handle count
\* as it was; a step that changes the drain signal of an endpoint is the release
\* of a handle of connectToRefHost() and leaves every termination signal as it
\* was; no handed-out or released handle changes a termination signal.
C19_IndependentLifecycles ==
  [][\A e \in Sides :
       /\ disc'[e] # disc[e] =>
            /\ drain' = drain /\ connHandles' = connHandles /\ accHandles' = accHandles
            /\ recv'[e] # recv[e] \/ tasks'[e] # tasks[e]
       /\ drain'[e] # drain[e] =>
            /\ disc' = disc
            /\ connHandles'[e] = connHandles[e] - 1
       /\ connHandles'[e] # connHandles[e] \/ accHandles'[e] # accHandles[e] =>
            disc' = disc]_vars

\* The client has lost a write and has dropped its only handle, in either order:
\* each signal has been fired once, by its own trigger; the server, which holds
\* the handle it accepted and has decoded nothing yet, is active and referenced.
C19_Witness ==
  /\ AnyFailed("CLIENT") /\ disc["CLIENT"] = [state |-> "fulfilled", fired |-> 1, calls |-> 1]
  /\ connIssued["CLIENT"] = 1 /\ connHandles["CLIENT"] = 0
  /\ drain["CLIENT"] = [state |-> "fulfilled", fired |-> 1, calls |-> 1]
  /\ accHandles["SERVER"] = 1
  /\ disc["SERVER"].state = "waiting" /\ drain["SERVER"].state = "waiting"

\* C20: whenever the termination signal of an endpoint is fulfilled, a write of
\* that endpoint has failed or one of its receives has met the end of the stream
\* or a broken frame; connecting, accepting, releasing a handle, a write that
\* succeeds and a decode that yields a message leave the signal unresolved.
Cause(e) == AnyFailed(e) \/ Results(e, "none") # {} \/ Results(e, "error") # {}

C20_NoSpuriousTermination ==
  \A e \in Sides : disc[e].state # "waiting" => Cause(e)

\* Both endpoints have connected or accepted, a message has been written in full
\* by the client and decoded by the server, and neither is terminated.
C20_Witness ==
  /\ connIssued["CLIENT"] > 0 /\ accepted["SERVER"]
  /\ \E i \in 1..Len(tasks["CLIENT"]) :
       tasks["CLIENT"][i].st = "resolved" /\ ~tasks["CLIENT"][i].failed
  /\ Results("SERVER", "msg") # {}
  /\ \A e \in Sides : disc[e].state = "waiting" /\ ~Cause(e)

====
